---- MODULE Spec2Model ----
(***************************************************************************)
(* r2r-ctd: the persistent computation cache of a cast record (state.py)   *)
(* and the orchestration of the SBE container (docker_ctl.py).             *)
(*                                                                         *)
(* One cast record is modelled: its in-memory dataset (data variables and  *)
(* the attributes of the r2r_qc variable) and its backing netCDF file.     *)
(* The program is sequential: pc tells whether a call of                   *)
(* get_or_write_derived_file with the make_cnvs producer is in the retry   *)
(* loop of attempts.wrapper ("attempting") or no call is active ("idle").  *)
(***************************************************************************)
EXTENDS Integers, Sequences, FiniteSets, TLC

VARIABLES
    ds,        \* data variables of the in-memory record: key -> value or Absent
    hasqc,     \* R2R_QC_VARNAME in ds
    qc,        \* ds[R2R_QC_VARNAME].attrs: QC key -> int8
    disk,      \* the record as last written to its backing file
    ncalls,    \* per request key: how often get_or_write_derived_file invoked func
    raised,    \* per request key: func has raised InvalidSBEFileError for it
    mapped,    \* per key: the value first stored under it from a multi-key dict
    ret,       \* how the last get_or_write_* call ended; NoRet while one is running
    pc,        \* "idle" | "attempting"
    req,       \* request key of the call that is in the retry loop
    launched,  \* ContainerGetter.container is not None
    gated,     \* the container reported healthy in the last health gate
    attempt,   \* attempts.wrapper: local variable attempt
    execs,     \* executions of the wrapped function in the current/last wrapper call
    restarts,  \* container.restart() calls in the current/last wrapper call
    crashes,   \* executions of that call whose stderr held "starting debugger"
    sawdbg,    \* stderr of the current/last wrapper call held "starting debugger"
    sawrc,     \* ... held "ReadConFile - failed to read"
    wres,      \* how the last wrapper call ended
    polls,     \* health polls made by the last health gate
    launches,  \* client.containers.run calls of the process
    runs,      \* initialize_or_get_state calls for the raw input after Init
    loaded,    \* the record of this run was opened from the state file
    vol,       \* _tmpdir, the shared volume: directory name -> directory
    task,      \* the run_con_report / run_sbebatch invocation seen step by step
    hooks,     \* atexit.register(_kill_container) calls of the process
    exited,    \* the process has exited and its exit hooks have run
    kills,     \* container.kill() calls made by the exit hooks
    qa,        \* how the last building of the bad-format list ended
    model,     \* what the last get_model call returned
    rep,       \* how the last gen_cnvs or rating call of reporting.py ended
    writers,   \* per writer: its loaded copy of the cast record
    lastw,     \* the writer whose write_ds_r2r ran last (0: none)
    files,     \* the state files under proc/nc and the raw input each holds
    cast,      \* the last initialize_or_get_state(breakout, hex_path) call
    container, \* ContainerGetter.container as threads see it: 0 (None) or an id
    thr,       \* per thread: where its get_container() call stands
    workers,   \* client.containers.run calls made by the threads
    atexit     \* the threads that have registered _kill_container

vars == <<ds, hasqc, qc, disk, ncalls, raised, mapped, ret, pc, req,
          launched, gated, attempt, execs, restarts, crashes, sawdbg, sawrc, wres,
          polls, launches, runs, loaded, vol, task, hooks, exited, kills, qa,
          model, rep, writers, lastw, files, cast, container, thr, workers,
          atexit>>

runVars == <<runs, loaded>>

taskVars == <<vol, task>>

toolVars ==
    <<launched, gated, attempt, execs, restarts, crashes, sawdbg, sawrc, wres,
      polls, launches, hooks>>

cacheVars == <<ds, hasqc, qc, disk, ncalls, raised, mapped, ret, pc, req>>

exitVars == <<exited, kills>>

reportVars == <<qa, model, rep>>

writerVars == <<writers, lastw>>

stateVars == <<files, cast>>

threadVars == <<container, thr, workers, atexit>>

otherVars == <<exitVars, reportVars, writerVars, stateVars, threadVars>>

---------------------------------------------------------------------------
(* Bounds of the model *)

MaxCalls == 2      \* producer invocations per request key
MaxChunks == 1     \* stderr chunks of one tool execution
MaxRuns == 2       \* later runs of the program on the raw input
MaxTasks == 3      \* tool invocations seen step by step
NThreads == 2      \* threads calling get_container() at the same time

---------------------------------------------------------------------------
(* Keys and values *)

DerivedKeys == {"con_report", "cnv_24hz", "cnv_1db"}
CnvKeys == {"cnv_24hz", "cnv_1db"}
CheckKeys == {"three_files"}
\* the keys the test doubles of SpecCache are asked for and may return in a dict
TestKeys == CnvKeys

\* state.py:121  error_key = f"{key}_error"
ErrorKey(key) == key \o "_error"

Blobs == {"X", "Y"}
Absent == "absent"          \* key not in ds
PyNone == "None"            \* Python None
NoKey == "-"

\* state.py:166  np.int8(check_result) of a bool
Int8(b) == IF b THEN 1 ELSE 0
\* state.py:159  bool(value) of a stored int8
PyBool(v) == v # 0

EmptyMap == [k \in {} |-> PyNone]

\* the record as one value
Mem(d, h, q) == [ds |-> d, hasqc |-> h, qc |-> q]

\* state.py:33-37: ds.to_netcdf(path, mode="a"), the dataset is written into
\* the file at its path in append mode: the variables and attributes of the
\* dataset are set in the file, what else the file holds stays
write_ds_r2r_empty(mem, dsk) == Mem([k \in DOMAIN mem.ds |-> Absent], FALSE, EmptyMap)
write_ds_r2r_replace(mem, dsk) == mem
write_ds_r2r(mem, dsk) ==
    Mem([k \in DOMAIN mem.ds |-> IF mem.ds[k] # Absent THEN mem.ds[k] ELSE dsk.ds[k]],
        mem.hasqc \/ dsk.hasqc,
        mem.qc @@ dsk.qc)

\* the backing file before anything was written to it
NoStateFile == Mem([k \in DerivedKeys |-> Absent], FALSE, EmptyMap)
\* state.py:94  state_path.exists()
StateFileExists(dsk) == dsk # NoStateFile

\* state.py:91-109.  Result: the record, the file, whether read_hex was called
initialize_or_get_state_fresh(dsk) ==
    LET m == Mem([k \in DerivedKeys |-> Absent], TRUE, EmptyMap)
    IN [mem |-> m, disk |-> write_ds_r2r(m, dsk), read_hex |-> TRUE]
initialize_or_get_state(dsk) ==
    IF StateFileExists(dsk)
    THEN [mem |-> dsk, disk |-> dsk, read_hex |-> FALSE]
    ELSE LET m == Mem([k \in DerivedKeys |-> Absent], TRUE, EmptyMap)
         IN [mem |-> m, disk |-> write_ds_r2r(m, dsk), read_hex |-> TRUE]

---------------------------------------------------------------------------
(* Exceptions (r2r_ctd.exceptions) *)

\* InvalidXMLCONError is a kind of InvalidSBEFileError, WineDebuggerEnteredError
\* is not
IsInvalidSBEFileError(exc) == exc \in {"InvalidSBEFileError", "InvalidXMLCONError"}

---------------------------------------------------------------------------
(* get_or_write_check *)

\* state.py:154  key in ds[R2R_QC_VARNAME].attrs
QcHitNever(q, key) == FALSE
QcHit(q, key) == key \in DOMAIN q

\* state.py:146-169.  fres is what func would return if it were invoked.
\* Result: the record, the file, the returned bool, whether func was invoked.
get_or_write_check(mem, dsk, key, fres) ==
    IF QcHit(mem.qc, key)
    THEN [mem |-> Mem(mem.ds, TRUE, mem.qc), disk |-> dsk,
          value |-> PyBool(mem.qc[key]), invoked |-> FALSE]
    ELSE LET m2 == Mem(mem.ds, TRUE, (key :> Int8(fres)) @@ mem.qc)
         IN [mem |-> m2, disk |-> write_ds_r2r(m2, dsk),
             value |-> fres, invoked |-> TRUE]

---------------------------------------------------------------------------
(* get_or_write_derived_file *)

\* state.py:117  key in ds
InDs(d, key) == d[key] # Absent

\* state.py:122
HasErrorMarkerNever(h, q, key) == FALSE
HasErrorMarker(h, q, key) == h /\ ErrorKey(key) \in DOMAIN q

\* state.py:117-124: "hit", "error" or "miss"
DerivedLookupNoHit(mem, key) ==
    IF HasErrorMarker(mem.hasqc, mem.qc, key) THEN "error" ELSE "miss"
DerivedLookup(mem, key) ==
    IF InDs(mem.ds, key) THEN "hit"
    ELSE IF HasErrorMarker(mem.hasqc, mem.qc, key) THEN "error"
    ELSE "miss"

\* what func did: returned a value, a dict, None, or raised
Scalar(v) == [kind |-> "scalar", val |-> v, map |-> EmptyMap, exc |-> NoKey]
Multi(m) == [kind |-> "dict", val |-> PyNone, map |-> m, exc |-> NoKey]
Raise(e) == [kind |-> "raise", val |-> PyNone, map |-> EmptyMap, exc |-> e]
NotInvoked == [kind |-> "not_invoked", val |-> PyNone, map |-> EmptyMap, exc |-> NoKey]

\* How a call ended.  op: "check" | "derived"; key: its key; kind: it returned
\* a "value", returned "None" or ended by "raise"; val: the artifact returned
\* or the exception raised (for a check: what func was ready to return); flag:
\* the bool a check
\* returned; res: what func did in this call; tool: the tool behind func;
\* dbg, rc: the stderr of the tool executions of this call held
\* "starting debugger" / "ReadConFile - failed to read"
Ret(op, key, kind, val, flag, res, tool, dbg, rc) ==
    [op |-> op, key |-> key, kind |-> kind, val |-> val, flag |-> flag,
     res |-> res, tool |-> tool, dbg |-> dbg, rc |-> rc]

NoRet == Ret("none", NoKey, "none", PyNone, FALSE, NotInvoked, "none", FALSE, FALSE)

BoolStr(b) == IF b THEN "True" ELSE "False"

\* state.py:137-138  for _key, value in result.items(): ds[_key] = value
StoreDictFirstOnly(d, m) ==
    IF DOMAIN m = {} THEN d
    ELSE LET k == CHOOSE k \in DOMAIN m : TRUE IN [d EXCEPT ![k] = m[k]]
StoreDict(d, m) == [k \in DOMAIN d |-> IF k \in DOMAIN m THEN m[k] ELSE d[k]]

\* state.py:128-130: the except clause
AbsorbNoMarker(mem, dsk, key) ==
    [mem |-> mem, disk |-> dsk, kind |-> "None", val |-> PyNone, exc |-> NoKey]
Absorb(mem, dsk, key) ==
    LET c == get_or_write_check(mem, dsk, ErrorKey(key), FALSE)
    IN [mem |-> c.mem, disk |-> c.disk, kind |-> "None", val |-> PyNone, exc |-> NoKey]

\* state.py:132-133  isinstance(result, dict) and key not in result
MissingKeyNever(res, key) == FALSE
MissingKey(res, key) == res.kind = "dict" /\ key \notin DOMAIN res.map

\* state.py:126-143: from the result of func to the return
DerivedFinish(mem, dsk, key, res) ==
    IF res.kind = "raise"
    THEN IF IsInvalidSBEFileError(res.exc)
         THEN Absorb(mem, dsk, key)
         ELSE [mem |-> mem, disk |-> dsk, kind |-> "raise", val |-> PyNone, exc |-> res.exc]
    ELSE IF MissingKey(res, key)
    THEN [mem |-> mem, disk |-> dsk, kind |-> "raise", val |-> PyNone, exc |-> "ValueError"]
    ELSE LET d2 == IF res.kind = "dict" THEN StoreDict(mem.ds, res.map)
                   ELSE [mem.ds EXCEPT ![key] = res.val]
             m2 == Mem(d2, mem.hasqc, mem.qc)
         IN [mem |-> m2, disk |-> write_ds_r2r(m2, dsk), kind |-> "value", val |-> d2[key],
             exc |-> NoKey]

---------------------------------------------------------------------------
(* The container and the tools (docker_ctl.py) *)

\* docker_ctl.py:179  @attempts(3)
tires == 3
\* docker_ctl.py:25  timeout=5 (seconds)
timeout == 5
\* docker_ctl.py:26  sleep = 0.5 (seconds), in tenths of a second
sleepTenths == 5
\* docker_ctl.py:27  tries = timeout / sleep
Tries == (timeout * 10) \div sleepTenths

\* what one (stdout, stderr) item of the exec output stream holds in its stderr
\* part: nothing (stderr is None), neither substring, "ReadConFile - failed to
\* read", "starting debugger", or both substrings
Chunks == {"none", "plain", "readcon", "debugger", "both"}
Stderrs == UNION {[1..n -> Chunks] : n \in 0..MaxChunks}

\* docker_ctl.py:126  b"ReadConFile - failed to read" in stderr
HasReadCon(c) == c \in {"readcon", "both"}
\* docker_ctl.py:233  "starting debugger" in msg
HasDebugger(c) == c \in {"debugger", "both"}

\* docker_ctl.py:121-126: some stderr message holds "ReadConFile - failed to read"
HoldsReadCon(stderr) == \E i \in DOMAIN stderr : HasReadCon(stderr[i])
\* docker_ctl.py:229-233: some stderr message holds "starting debugger"
HoldsDebugger(stderr) == \E i \in DOMAIN stderr : HasDebugger(stderr[i])

\* the poll (1..) at which the container first reports healthy; 0: it never does
HealthAts == {0, 1, Tries, Tries + 1}

\* docker_ctl.py:28-34: the polling loop; n polls have been made
RECURSIVE Poll(_, _, _)
Poll(tries, n, healthAt) ==
    IF tries = 0 THEN [ready |-> FALSE, polls |-> n]
    ELSE IF n + 1 = healthAt THEN [ready |-> TRUE, polls |-> n + 1]
    ELSE Poll(tries - 1, n + 1, healthAt)

\* docker_ctl.py:25-34
container_ready_extra(healthAt) == Poll(Tries + 1, 0, healthAt)
container_ready(healthAt) == Poll(Tries, 0, healthAt)

\* docker_ctl.py:40-73  ContainerGetter.__call__; run: client.containers.run
\* was called; hook: atexit.register was called
get_container_relaunch(isLaunched, isGated, healthAt) ==
    LET r == container_ready(healthAt)
    IN [launched |-> TRUE, gated |-> r.ready, ok |-> r.ready, run |-> 1,
        polls |-> r.polls, hook |-> 1]
get_container_hook_when_ready(isLaunched, isGated, healthAt) ==
    IF isLaunched
    THEN [launched |-> TRUE, gated |-> isGated, ok |-> TRUE, run |-> 0, polls |-> 0,
          hook |-> 0]
    ELSE LET r == container_ready(healthAt)
         IN [launched |-> TRUE, gated |-> r.ready, ok |-> r.ready, run |-> 1,
             polls |-> r.polls, hook |-> IF r.ready THEN 1 ELSE 0]
get_container(isLaunched, isGated, healthAt) ==
    IF isLaunched
    THEN [launched |-> TRUE, gated |-> isGated, ok |-> TRUE, run |-> 0, polls |-> 0,
          hook |-> 0]
    ELSE LET r == container_ready(healthAt)
         IN [launched |-> TRUE, gated |-> r.ready, ok |-> r.ready, run |-> 1,
             polls |-> r.polls, hook |-> 1]

\* docker_ctl.py:115-136: the stderr scan of run_con_report and the read of the
\* report; outOk: the report file exists in out/
run_con_report_noscan(stderr, outOk, blob) ==
    IF outOk THEN Scalar(blob) ELSE Raise("OtherError")
run_con_report(stderr, outOk, blob) ==
    IF HoldsReadCon(stderr)
    THEN Raise("InvalidXMLCONError")
    ELSE IF outOk THEN Scalar(blob) ELSE Raise("OtherError")

\* docker_ctl.py:218-246: the stderr scan of run_sbebatch and the read of the
\* two converted files; outOk: both files exist in out/
run_sbebatch_invalid(stderr, outOk, v1, v2) ==
    IF HoldsDebugger(stderr)
    THEN Raise("InvalidXMLCONError")
    ELSE IF outOk THEN Multi(("cnv_24hz" :> v1) @@ ("cnv_1db" :> v2))
    ELSE Raise("OtherError")
run_sbebatch(stderr, outOk, v1, v2) ==
    IF HoldsDebugger(stderr)
    THEN Raise("WineDebuggerEnteredError")
    ELSE IF outOk THEN Multi(("cnv_24hz" :> v1) @@ ("cnv_1db" :> v2))
    ELSE Raise("OtherError")

\* what run_sbebatch finds in out/ after the exec: both converted files (with
\* their contents) or not
NoOutput == [ok |-> FALSE, v1 |-> PyNone, v2 |-> PyNone]
SbeOutputs ==
    {NoOutput}
        \cup {[ok |-> TRUE, v1 |-> a, v2 |-> b] : a \in Blobs, b \in Blobs}

\* docker_ctl.py:22  _tmpdir, empty
EmptyVol == [n \in {} |-> {}]
\* names TemporaryDirectory may give to a subdirectory of _tmpdir
DirNames == {"tmp_a", "tmp_b"}
Tools == {"con_report", "sbebatch"}

\* docker_ctl.py:97, 194  TemporaryDirectory(dir=_tmpdir.name): mkdtemp makes a
\* new, empty directory under a name that is not in use; owner: the invocation
\* that made it
FreshNames(v) == DirNames \ DOMAIN v
NewDirStale(id) == [owner |-> id, files |-> {[path |-> "out/stale", by |-> id - 1]}]
NewDir(id) == [owner |-> id, files |-> {}]

\* docker_ctl.py:98-113, 195-216: the paths an invocation writes before the
\* exec: its launcher, its input files and the directory out/
TaskPaths(tool) ==
    IF tool = "con_report"
    THEN {"sh/con_report.sh", "in/xmlcon", "out/"}
    ELSE {"sh/sbebatch.sh", "in/batch.txt", "in/hex", "in/xmlcon", "in/datcnv.psa",
          "in/derive.psa", "in/binavg.psa", "out/"}
TaskFiles(tool, id) == {[path |-> p, by |-> id] : p \in TaskPaths(tool)}

\* the writer of the files that the tool in the container leaves (invocations
\* are numbered from 1)
ByTool == 0 - 1

\* docker_ctl.py:132, 238-239: the files the tool is to leave in out/
OutPaths(tool) ==
    IF tool = "con_report" THEN {"out/xmlcon.txt"}
    ELSE {"out/hex.cnv", "out/hex_1db.cnv"}

\* docker_ctl.py:97, 194: the exit of the with block removes the directory
CleanupKeep(v, name) == v
Cleanup(v, name) == [n \in DOMAIN v \ {name} |-> v[n]]

NoTask ==
    [pc |-> "none", id |-> 0, tool |-> "none", dir |-> NoKey, acquired |-> FALSE,
     made |-> FALSE, how |-> "none"]

\* docker_ctl.py:157  while attempt <= tires
LoopCondStrict(a) == a < tires
LoopCond(a) == a <= tires

\* docker_ctl.py:160  except WineDebuggerEnteredError
CatchesAll(r) == r.kind = "raise"
Catches(r) == r.kind = "raise" /\ r.exc = "WineDebuggerEnteredError"

\* docker_ctl.py:169  if not container_ready(container)
RestartFailedNever(cr) == FALSE
RestartFailed(cr) == ~cr.ready

\* docker_ctl.py:164-167: the except clause counts the attempt and restarts the
\* container
AfterCrashNoRestart(a, r) == [attempt |-> a + 1, restarts |-> r]
AfterCrashNoLastRestart(a, r) ==
    [attempt |-> a + 1, restarts |-> IF a + 1 <= tires THEN r + 1 ELSE r]
AfterCrash(a, r) == [attempt |-> a + 1, restarts |-> r + 1]

\* docker_ctl.py:157-174: the loop is left without a return statement, so the
\* wrapper returns None
Exhausted == Scalar(PyNone)

\* the test doubles a caller may hand to get_or_write_derived_file as func
\* with dict results over the given keys
DictResults(keys) == UNION {[S -> Blobs] : S \in SUBSET keys}
ProducerResults(keys) ==
    {Scalar(b) : b \in Blobs} \cup {Multi(m) : m \in DictResults(keys)}
        \cup {Raise("InvalidSBEFileError"), Raise("OtherError")}

---------------------------------------------------------------------------
(* The exit hook of the container (docker_ctl.py:62-68) *)

\* docker_ctl.py:62-66  _kill_container: container.kill() calls of one hook
kill_container(isLaunched) == IF isLaunched THEN 1 ELSE 0

---------------------------------------------------------------------------
(* The configuration report and the model of the instrument (derived.py) *)

Header25 == "Configuration report for SBE 25"
Header49 == "Configuration report for SBE 49"
Header911 == "Configuration report for SBE 911plus"
Header19 == "Configuration report for SBE 19plus"

\* report texts a producer may return, each with the headers it contains
ReportHolds ==
    ("r911" :> {Header911}) @@ ("r25" :> {Header25}) @@ ("r49" :> {Header49})
    @@ ("r19" :> {Header19}) @@ ("r25_911" :> {Header25, Header911})
    @@ ("r49_911" :> {Header49, Header911}) @@ ("r911_19" :> {Header911, Header19})
    @@ ("rnone" :> {})
ReportTexts == DOMAIN ReportHolds

\* header in con_report
InText(header, text) == header \in ReportHolds[text]

\* derived.py:128-138
get_model_19_first(con_report) ==
    IF InText(Header25, con_report) THEN "SBE25"
    ELSE IF InText(Header49, con_report) THEN "SBE49"
    ELSE IF InText(Header19, con_report) THEN "SBE19"
    ELSE IF InText(Header911, con_report) THEN "SBE911"
    ELSE PyNone
get_model(con_report) ==
    IF InText(Header25, con_report) THEN "SBE25"
    ELSE IF InText(Header49, con_report) THEN "SBE49"
    ELSE IF InText(Header911, con_report) THEN "SBE911"
    ELSE IF InText(Header19, con_report) THEN "SBE19"
    ELSE PyNone

\* the test doubles that produce a report text, or raise
ReportResults ==
    {Scalar(t) : t \in ReportTexts}
        \cup {Raise("InvalidXMLCONError"), Raise("OtherError")}

---------------------------------------------------------------------------
(* The list of casts with a bad configuration file (reporting.py) *)

\* derived.py: the names the module defines
DerivedNames ==
    {"logger", "E", "_parse_coord", "get_longitude", "get_latitude",
     "_normalize_date_strings", "get_time", "make_con_report", "get_model",
     "_con_report_extract_sensors", "get_con_report_sn", "get_hdr_sn",
     "make_derive_psa", "make_binavg_psa", "make_datcnv_psa", "make_cnvs"}

\* reporting.py:18-27  from r2r_ctd.derived import (...)
ReportingImports ==
    {"get_conreport_sn", "get_hdr_sn", "get_latitude", "get_longitude", "get_model",
     "get_time", "make_conreport", "make_cnvs"}

\* from module import names: every name has to be defined by the module
from_import(names, defined) ==
    IF names \subseteq defined THEN "ok" ELSE "ImportError"

\* the casts of the breakout, by station.stem
Casts == {"CTD01", "CTD02"}
NotProcessed == "not_processed"

\* reporting.py:307-320; reports: per cast what get_or_write_derived_file
\* returned, a report or None
info_casts_with_xmlcon_bad_format(reports) ==
    {c \in DOMAIN reports : reports[c] = PyNone}

NoQa == [status |-> "none", seen |-> [c \in Casts |-> NotProcessed], list |-> {}]

---------------------------------------------------------------------------
(* The state file of a raw input (state.py:40-49) *)

Breakouts == {"cruise_a", "cruise_b"}
HexDirs == {"data", "data/aux"}
\* file names as their dot-separated parts
HexNames == {<<"CTD01", "hex">>, <<"CTD01", "HEX">>, <<"CTD02", "hex">>, <<"CTD01">>}
HexPaths == [dir : HexDirs, name : HexNames]

\* pathlib: PurePath.stem, the name without its last suffix
stem(name) == IF Len(name) >= 2 THEN SubSeq(name, 1, Len(name) - 1) ELSE name

\* pathlib: PurePath.with_suffix(suffix).name, the last suffix is replaced, a
\* name without suffix gets one
with_suffix_append(name, suffix) == name \o <<suffix>>
with_suffix(name, suffix) == stem(name) \o <<suffix>>

\* state.py:40-49
get_state_path(breakout, hex_path) ==
    [dir |-> breakout \o "/proc/nc", name |-> with_suffix(hex_path.name, "nc")]

\* state.py:94  state_path.exists()
state_path_exists(fs, path) == \E f \in fs : f.path = path

NoCast ==
    [opened |-> FALSE, breakout |-> "cruise_a",
     hex |-> [dir |-> "data", name |-> <<"CTD01", "hex">>],
     path |-> get_state_path("cruise_a", [dir |-> "data", name |-> <<"CTD01", "hex">>]),
     read_hex |-> FALSE,
     holds |-> [dir |-> "data", name |-> <<"CTD01", "hex">>]]

---------------------------------------------------------------------------
(* Two writers of one cast record *)

Writers == {1, 2}
\* accessors.py:38, 50
WriterKeys == {"lat_lon_valid", "three_files"}

NoWriter == [loaded |-> FALSE, mem |-> NoStateFile, base |-> NoStateFile, stored |-> {}]

---------------------------------------------------------------------------
(* The ratings and the conversion loop of the QA report (reporting.py) *)

\* import r2r_ctd.reporting succeeds (reporting.py:18-27)
ReportingImported == from_import(ReportingImports, DerivedNames) = "ok"

\* reporting.py:130, 152, 164, 191, 206  int((results.count(True) /
\* len(results)) * 100); on the cast counts of the model the float product
\* truncates to the integer quotient
percent(count, n) == (count * 100) \div n

\* numbers of casts of a breakout, and of those the casts with a readable
\* value and the casts within the cruise bounds
CastCounts == {1, 2, 4, 101}
RangeInputs ==
    UNION {{c \in [n : {n}, valid : {0, 1, n}, inrange : {0, 1, n \div 2, n - 1, n}] :
               c.inrange <= c.valid} :
           n \in CastCounts}
NoRangeInput == [n |-> 0, valid |-> 0, inrange |-> 0]

\* reporting.py:132-136
presence_of_all_files_rating(presence) == IF presence = 100 THEN "G" ELSE "R"

\* reporting.py:138-142
valid_checksum_rating(manifest_ok) == IF manifest_ok THEN "G" ELSE "R"

\* reporting.py:166-183
lat_lon_nav_ranges_rating(lat_lon_nav_valid, lat_lon_nav_range) ==
    IF lat_lon_nav_valid = 0 THEN "X"
    ELSE IF lat_lon_nav_range = 100 THEN "G"
    ELSE IF lat_lon_nav_range >= 50 THEN "Y"
    ELSE "R"

\* reporting.py:208-225
time_rating(time_valid, time_range) ==
    IF time_valid = 0 THEN "X"
    ELSE IF time_range = 100 THEN "G"
    ELSE IF time_range >= 50 THEN "Y"
    ELSE "R"

TestRatings == {"G", "R", "Y", "N", "X"}

\* the keys of the checks the test ratings are computed from
\* (reporting.py:128, 159-163, 198-202)
RatingKeys == {"three_files", "lat_lon_range", "date_range"}

\* reporting.py:227-243
rating(ratings) ==
    IF "R" \in ratings THEN "R"
    ELSE IF "N" \in ratings THEN "N"
    ELSE IF "X" \in ratings THEN "X"
    ELSE IF "Y" \in ratings THEN "Y"
    ELSE "G"

\* how a call into reporting.py ended.  what: "gen_cnvs" | "rating" |
\* "range_rating"; status: "done" | "ImportError"; value: what it returned;
\* ratings, counts, report: what it worked on
Rep(what, status, value, ratings, counts, report) ==
    [what |-> what, status |-> status, value |-> value, ratings |-> ratings,
     counts |-> counts, report |-> report]
NoRep == Rep("none", "none", NoKey, {}, NoRangeInput, NoKey)
RepImportError(what) == Rep(what, "ImportError", NoKey, {}, NoRangeInput, NoKey)

\* the results func has as make_cnvs: a dict of both converted files, or an
\* exception
CnvResults ==
    {Multi(("cnv_24hz" :> v) @@ ("cnv_1db" :> v)) : v \in Blobs}
        \cup {Raise("InvalidSBEFileError"), Raise("OtherError")}

---------------------------------------------------------------------------
(* get_container() called from several threads (docker_ctl.py:37-76) *)

Threads == 1..NThreads

\* ContainerGetter.container = None (docker_ctl.py:38)
NoContainer == 0

\* a get_container() call of a thread.  pc: "idle" | "launching" (past the
\* test of line 41, before containers.run returns) | "launched" |
\* "registered" | "ready" (container_ready returned True) | "returned" |
\* "raised"; seen: self.container as read at line 41; own: the container its
\* containers.run returned; gate: the container it passed to container_ready;
\* got: the container it returned
Call(p, seen, own, gate, got) ==
    [pc |-> p, seen |-> seen, own |-> own, gate |-> gate, got |-> got]
NoCall == Call("idle", NoContainer, NoContainer, NoContainer, NoContainer)

\* docker_ctl.py:41  if self.container is not None: return self.container
cached_always_launch(c) == FALSE
cached(c) == c # NoContainer

---------------------------------------------------------------------------
(* Actions *)

\* get_or_write_check(ds, key, func) where func would return fres
CheckCall(key, fres) ==
    /\ pc = "idle"
    /\ LET c == get_or_write_check(Mem(ds, hasqc, qc), disk, key, fres)
       IN /\ ds' = c.mem.ds
          /\ hasqc' = c.mem.hasqc
          /\ qc' = c.mem.qc
          /\ disk' = c.disk
          /\ ret' = Ret("check", key, "value", BoolStr(fres), c.value,
                        IF c.invoked THEN Scalar(BoolStr(fres)) ELSE NotInvoked,
                        "none", FALSE, FALSE)
    /\ UNCHANGED <<ncalls, raised, mapped, pc, req>>
    /\ UNCHANGED toolVars
    /\ UNCHANGED runVars
    /\ UNCHANGED taskVars
    /\ UNCHANGED otherVars

\* the return of get_or_write_derived_file at state.py:119 or state.py:124
CacheReturn(key, tool) ==
    LET look == DerivedLookup(Mem(ds, hasqc, qc), key)
    IN /\ pc = "idle"
       /\ look \in {"hit", "error"}
       /\ ret' = IF look = "hit"
                 THEN Ret("derived", key, "value", ds[key], FALSE, NotInvoked, tool,
                          FALSE, FALSE)
                 ELSE Ret("derived", key, "None", PyNone, FALSE, NotInvoked, tool,
                          FALSE, FALSE)
       /\ UNCHANGED <<ds, hasqc, qc, disk, ncalls, raised, mapped, pc, req>>
       /\ UNCHANGED toolVars
       /\ UNCHANGED runVars
       /\ UNCHANGED taskVars
       /\ UNCHANGED otherVars

\* state.py:126-127: func is invoked
Invoke(key) ==
    /\ pc = "idle"
    /\ DerivedLookup(Mem(ds, hasqc, qc), key) = "miss"
    /\ ncalls[key] < MaxCalls
    /\ ncalls' = [ncalls EXCEPT ![key] = @ + 1]

\* state.py:126-143 applied to the result res of func, for request key
FinishCall(key, res, tool, dbg, rc) ==
    LET f == DerivedFinish(Mem(ds, hasqc, qc), disk, key, res)
    IN /\ ds' = f.mem.ds
       /\ hasqc' = f.mem.hasqc
       /\ qc' = f.mem.qc
       /\ disk' = f.disk
       /\ raised' = [raised EXCEPT ![key] =
                        @ \/ (res.kind = "raise" /\ IsInvalidSBEFileError(res.exc))]
       /\ mapped' = [k \in DerivedKeys |->
                        IF /\ mapped[k] = Absent
                           /\ res.kind = "dict" /\ f.kind = "value"
                           /\ k \in DOMAIN res.map
                           /\ Cardinality(DOMAIN res.map) > 1
                        THEN f.mem.ds[k] ELSE mapped[k]]
       /\ ret' = Ret("derived", key, f.kind, IF f.kind = "raise" THEN f.exc ELSE f.val,
                     FALSE, res, tool, dbg, rc)

\* get_or_write_derived_file(ds, key, func) where func is a test double that
\* would end as res
DerivedCall(key, results) ==
    \/ CacheReturn(key, "none")
    \/ /\ Invoke(key)
       /\ \E res \in results : FinishCall(key, res, "none", FALSE, FALSE)
       /\ UNCHANGED <<pc, req>>
       /\ UNCHANGED toolVars
       /\ UNCHANGED runVars
       /\ UNCHANGED taskVars
       /\ UNCHANGED otherVars

\* get_or_write_derived_file(ds, "con_report", make_con_report)
\* (accessors.py:60); make_con_report runs run_con_report
ConReportCall ==
    \/ CacheReturn("con_report", "con_report")
    \/ /\ Invoke("con_report")
       /\ UNCHANGED <<pc, req, attempt, execs, restarts, crashes, sawdbg, sawrc,
                      wres>>
       /\ UNCHANGED runVars
       /\ UNCHANGED taskVars
       /\ UNCHANGED otherVars
       /\ IF launched
          THEN /\ UNCHANGED <<launched, gated, polls, launches, hooks>>
               /\ \E stderr \in Stderrs, outOk \in BOOLEAN, blob \in Blobs :
                     FinishCall("con_report", run_con_report(stderr, outOk, blob),
                                "con_report", HoldsDebugger(stderr), HoldsReadCon(stderr))
          ELSE \E healthAt \in HealthAts :
                  LET g == get_container(launched, gated, healthAt)
                  IN /\ launched' = g.launched
                     /\ gated' = g.gated
                     /\ polls' = g.polls
                     /\ launches' = launches + g.run
                     /\ hooks' = hooks + g.hook
                     /\ IF g.ok
                        THEN \E stderr \in Stderrs, outOk \in BOOLEAN, blob \in Blobs :
                                FinishCall("con_report",
                                           run_con_report(stderr, outOk, blob),
                                           "con_report", HoldsDebugger(stderr),
                                           HoldsReadCon(stderr))
                        ELSE FinishCall("con_report", Raise("Exception"),
                                        "con_report", FALSE, FALSE)

\* get_or_write_derived_file(ds, key, make_cnvs) for a converted product
\* (reporting.py:398-404, accessors.py:68-71), up to the first execution of
\* run_sbebatch: the cache lookup and attempts.wrapper line 155-156
CnvBegin(key) ==
    /\ InDs(ds, "con_report")
    /\ \/ CacheReturn(key, "sbebatch")
       \/ /\ Invoke(key)
          /\ UNCHANGED runVars
          /\ UNCHANGED taskVars
          /\ UNCHANGED otherVars
          /\ attempt' = 1
          /\ execs' = 0
          /\ restarts' = 0
          /\ crashes' = 0
          /\ sawdbg' = FALSE
          /\ sawrc' = FALSE
          /\ \E healthAt \in (IF launched THEN {1} ELSE HealthAts) :
                LET g == get_container(launched, gated, healthAt)
                IN /\ launched' = g.launched
                   /\ gated' = g.gated
                   /\ polls' = IF g.run = 1 THEN g.polls ELSE polls
                   /\ launches' = launches + g.run
                   /\ hooks' = hooks + g.hook
                   /\ IF g.ok
                      THEN /\ pc' = "attempting"
                           /\ req' = key
                           /\ wres' = "running"
                           /\ ret' = NoRet
                           /\ UNCHANGED <<ds, hasqc, qc, disk, raised, mapped>>
                      ELSE /\ wres' = "raised_Exception"
                           /\ FinishCall(key, Raise("Exception"), "sbebatch", FALSE,
                                         FALSE)
                           /\ UNCHANGED <<pc, req>>

\* the wrapper call ends with res (returned or raised): the rest of
\* get_or_write_derived_file for the request key
WrapperEnd(res, how, dbg) ==
    /\ wres' = how
    /\ FinishCall(req, res, "sbebatch", dbg, sawrc')
    /\ pc' = "idle"
    /\ req' = NoKey

\* one iteration of the loop of attempts.wrapper (docker_ctl.py:157-172): the
\* execution of run_sbebatch and, when it crashed, the except clause; when the
\* wrapper ends, the rest of get_or_write_derived_file
Attempt(stderr) ==
    /\ pc = "attempting"
    /\ LoopCond(attempt)
    /\ UNCHANGED runVars
    /\ UNCHANGED taskVars
    /\ UNCHANGED otherVars
    /\ LET dbg == sawdbg \/ HoldsDebugger(stderr)
       IN /\ execs' = execs + 1
          /\ sawdbg' = dbg
          /\ crashes' = IF HoldsDebugger(stderr) THEN crashes + 1 ELSE crashes
          /\ sawrc' = (sawrc \/ HoldsReadCon(stderr))
          /\ launched' = get_container(launched, gated, 1).launched
          /\ launches' = launches + get_container(launched, gated, 1).run
          /\ hooks' = hooks + get_container(launched, gated, 1).hook
          /\ UNCHANGED ncalls
          /\ \E out \in (IF HoldsDebugger(stderr) THEN {NoOutput} ELSE SbeOutputs) :
               LET r == run_sbebatch(stderr, out.ok, out.v1, out.v2)
               IN IF Catches(r)
                  THEN /\ attempt' = AfterCrash(attempt, restarts).attempt
                       /\ restarts' = AfterCrash(attempt, restarts).restarts
                       /\ \E healthAt \in HealthAts :
                            LET cr == container_ready(healthAt)
                            IN /\ gated' = cr.ready
                               /\ polls' = cr.polls
                               /\ IF RestartFailed(cr)
                                  THEN WrapperEnd(Raise("Exception"),
                                                  "raised_Exception", dbg)
                                  ELSE IF LoopCond(attempt')
                                  THEN /\ wres' = "running"
                                       /\ UNCHANGED <<ds, hasqc, qc, disk, raised,
                                                      mapped, ret, pc, req>>
                                  ELSE WrapperEnd(Exhausted, "returned_None", dbg)
                  ELSE /\ WrapperEnd(r, IF r.kind = "raise" THEN "raised_" \o r.exc
                                        ELSE "returned_value", dbg)
                       /\ UNCHANGED <<attempt, restarts, gated, polls>>

\* a later run of the program on the same raw input, in a new process:
\* initialize_or_get_state (state.py:91-109)
InitializeOrGetState ==
    /\ pc = "idle"
    /\ runs < MaxRuns
    /\ runs' = runs + 1
    /\ LET r == initialize_or_get_state(disk)
       IN /\ ds' = r.mem.ds
          /\ hasqc' = r.mem.hasqc
          /\ qc' = r.mem.qc
          /\ disk' = r.disk
          /\ loaded' = ~r.read_hex
          /\ ret' = Ret("init", NoKey, "value", PyNone, r.read_hex, NotInvoked,
                        "none", FALSE, FALSE)
    /\ launched' = FALSE
    /\ gated' = FALSE
    /\ polls' = 0
    /\ launches' = 0
    /\ attempt' = 1
    /\ execs' = 0
    /\ restarts' = 0
    /\ crashes' = 0
    /\ sawdbg' = FALSE
    /\ sawrc' = FALSE
    /\ wres' = "none"
    /\ vol' = EmptyVol
    /\ task' = NoTask
    /\ hooks' = 0
    /\ exited' = FALSE
    /\ kills' = 0
    /\ UNCHANGED <<ncalls, raised, mapped, pc, req>>
    /\ UNCHANGED <<reportVars, writerVars, stateVars, threadVars>>

\* the variables the steps of an invocation leave alone
TaskFrame ==
    /\ UNCHANGED <<ds, hasqc, qc, disk, ncalls, raised, mapped, ret, pc, req>>
    /\ UNCHANGED <<attempt, execs, restarts, crashes, sawdbg, sawrc, wres>>
    /\ UNCHANGED runVars
    /\ UNCHANGED otherVars

\* run_con_report / run_sbebatch is invoked: get_container()
\* (docker_ctl.py:92, 187).  run_sbebatch is reached through attempts.wrapper,
\* which has acquired the container before (docker_ctl.py:155).
TaskBegin(tool, healthAt) ==
    /\ pc = "idle"
    /\ task.pc \in {"none", "ended"}
    /\ task.id < MaxTasks
    /\ ~exited
    /\ tool = "sbebatch" => launched
    /\ LET g == get_container(launched, gated, healthAt)
       IN /\ launched' = g.launched
          /\ gated' = g.gated
          /\ polls' = IF g.run = 1 THEN g.polls ELSE polls
          /\ launches' = launches + g.run
          /\ hooks' = hooks + g.hook
          /\ task' = [pc |-> IF g.ok THEN "acquired" ELSE "ended",
                      id |-> task.id + 1, tool |-> tool, dir |-> NoKey,
                      acquired |-> g.ok, made |-> FALSE,
                      how |-> IF g.ok THEN "running" ELSE "raised_Exception"]
    /\ UNCHANGED vol
    /\ TaskFrame

\* with TemporaryDirectory(dir=_tmpdir.name) as condir (docker_ctl.py:97, 194)
TaskCreate(name) ==
    /\ task.pc = "acquired"
    /\ name \in FreshNames(vol)
    /\ vol' = (name :> NewDir(task.id)) @@ vol
    /\ task' = [task EXCEPT !.pc = "created", !.dir = name, !.made = TRUE]
    /\ UNCHANGED <<launched, gated, polls, launches, hooks>>
    /\ TaskFrame

\* the launcher, the input files and out/ are written (docker_ctl.py:98-113,
\* 195-216)
TaskPopulate ==
    /\ task.pc = "created"
    /\ vol' = [vol EXCEPT ![task.dir].files = @ \cup TaskFiles(task.tool, task.id)]
    /\ task' = [task EXCEPT !.pc = "populated"]
    /\ UNCHANGED <<launched, gated, polls, launches, hooks>>
    /\ TaskFrame

\* container.exec_run of the launcher and the scan of its output
\* (docker_ctl.py:115-134, 218-242); outs: the files the tool has left in out/
TaskExec(stderr, outs) ==
    /\ task.pc = "populated"
    /\ LET outOk == outs = OutPaths(task.tool)
           r == IF task.tool = "con_report"
                THEN run_con_report(stderr, outOk, "X")
                ELSE run_sbebatch(stderr, outOk, "X", "Y")
       IN /\ vol' = [vol EXCEPT ![task.dir].files =
                        @ \cup {[path |-> p, by |-> ByTool] : p \in outs}]
          /\ task' = [task EXCEPT !.pc = "executed",
                                  !.how = IF r.kind = "raise" THEN "raised_" \o r.exc
                                          ELSE "returned"]
    /\ UNCHANGED <<launched, gated, polls, launches, hooks>>
    /\ TaskFrame

\* the exit of the with block, by return or by exception
TaskEnd ==
    /\ task.pc = "executed"
    /\ vol' = Cleanup(vol, task.dir)
    /\ task' = [task EXCEPT !.pc = "ended"]
    /\ UNCHANGED <<launched, gated, polls, launches, hooks>>
    /\ TaskFrame

\* the process exits and the functions registered with atexit run
\* (docker_ctl.py:62-68)
ProcessExit ==
    /\ pc = "idle"
    /\ task.pc \in {"none", "ended"}
    /\ ~exited
    /\ exited' = TRUE
    /\ kills' = hooks * kill_container(launched)
    /\ UNCHANGED cacheVars
    /\ UNCHANGED toolVars
    /\ UNCHANGED runVars
    /\ UNCHANGED taskVars
    /\ UNCHANGED <<reportVars, writerVars, stateVars, threadVars>>

\* get_or_write_derived_file(ds, "con_report", func) where func is a test
\* double that returns a report text or raises
ReportCall == DerivedCall("con_report", ReportResults)

\* get_model(con_report) on the report of the record (derived.py:143, 286)
ModelCall ==
    /\ pc = "idle"
    /\ ds["con_report"] \in ReportTexts
    /\ model' = get_model(ds["con_report"])
    /\ UNCHANGED <<qa, rep>>
    /\ UNCHANGED cacheVars
    /\ UNCHANGED toolVars
    /\ UNCHANGED runVars
    /\ UNCHANGED taskVars
    /\ UNCHANGED <<exitVars, writerVars, stateVars, threadVars>>

\* ResultAggregator.info_casts_with_xmlcon_bad_format is built: reporting.py is
\* imported (reporting.py:18-27), then the loop of reporting.py:307-320 runs
InfoCastsWithXmlconBadFormat ==
    /\ pc = "idle"
    /\ \E reports \in [Casts -> {"report", PyNone}] :
          qa' = IF from_import(ReportingImports, DerivedNames) = "ImportError"
                THEN [status |-> "ImportError",
                      seen |-> [c \in Casts |-> NotProcessed], list |-> {}]
                ELSE [status |-> "done", seen |-> reports,
                      list |-> info_casts_with_xmlcon_bad_format(reports)]
    /\ UNCHANGED <<model, rep>>
    /\ UNCHANGED cacheVars
    /\ UNCHANGED toolVars
    /\ UNCHANGED runVars
    /\ UNCHANGED taskVars
    /\ UNCHANGED <<exitVars, writerVars, stateVars, threadVars>>

\* initialize_or_get_state(breakout, hex_path) (state.py:91-109) seen over the
\* state files of the breakouts
OpenCast(breakout, hex_path) ==
    LET path == get_state_path(breakout, hex_path)
    IN /\ pc = "idle"
       /\ IF state_path_exists(files, path)
          THEN /\ cast' = [opened |-> TRUE, breakout |-> breakout, hex |-> hex_path,
                           path |-> path, read_hex |-> FALSE,
                           holds |-> (CHOOSE f \in files : f.path = path).src]
               /\ UNCHANGED files
          ELSE /\ cast' = [opened |-> TRUE, breakout |-> breakout, hex |-> hex_path,
                           path |-> path, read_hex |-> TRUE, holds |-> hex_path]
               /\ files' = files \cup {[path |-> path, src |-> hex_path]}
       /\ UNCHANGED cacheVars
       /\ UNCHANGED toolVars
       /\ UNCHANGED runVars
       /\ UNCHANGED taskVars
       /\ UNCHANGED <<exitVars, reportVars, writerVars, threadVars>>

\* a writer opens the cast record: initialize_or_get_state (state.py:91-109)
WriterLoad(w) ==
    /\ pc = "idle"
    /\ ~writers[w].loaded
    /\ LET r == initialize_or_get_state(disk)
       IN /\ writers' = [writers EXCEPT ![w] = [loaded |-> TRUE, mem |-> r.mem,
                                                base |-> r.mem, stored |-> {}]]
          /\ disk' = r.disk
          /\ lastw' = IF r.read_hex THEN w ELSE lastw
    /\ UNCHANGED <<ds, hasqc, qc, ncalls, raised, mapped, ret, pc, req>>
    /\ UNCHANGED toolVars
    /\ UNCHANGED runVars
    /\ UNCHANGED taskVars
    /\ UNCHANGED <<exitVars, reportVars, stateVars, threadVars>>

\* a writer calls get_or_write_check(ds, key, func) on its copy of the record,
\* where func would return fres
WriterCheck(w, key, fres) ==
    /\ pc = "idle"
    /\ writers[w].loaded
    /\ LET c == get_or_write_check(writers[w].mem, disk, key, fres)
       IN /\ writers' = [writers EXCEPT
                            ![w].mem = c.mem,
                            ![w].stored = IF c.invoked THEN @ \cup {key} ELSE @]
          /\ disk' = c.disk
          /\ lastw' = IF c.invoked THEN w ELSE lastw
    /\ UNCHANGED <<ds, hasqc, qc, ncalls, raised, mapped, ret, pc, req>>
    /\ UNCHANGED toolVars
    /\ UNCHANGED runVars
    /\ UNCHANGED taskVars
    /\ UNCHANGED <<exitVars, reportVars, stateVars, threadVars>>

\* R2RAccessor.cnv_24hz / cnv_1db (accessors.py:66-86) on a record whose
\* con_report has been asked for: self.con_report is answered from the record
\* or from its marker; make_cnvs is a test double
AccessorCnv(key) ==
    /\ pc = "idle"
    /\ DerivedLookup(Mem(ds, hasqc, qc), "con_report") # "miss"
    /\ IF DerivedLookup(Mem(ds, hasqc, qc), "con_report") = "error"
       THEN /\ ret' = Ret("accessor", key, "None", PyNone, FALSE, NotInvoked, "none",
                          FALSE, FALSE)
            /\ UNCHANGED <<ds, hasqc, qc, disk, ncalls, raised, mapped, pc, req>>
            /\ UNCHANGED toolVars
            /\ UNCHANGED runVars
            /\ UNCHANGED taskVars
            /\ UNCHANGED otherVars
       ELSE DerivedCall(key, CnvResults)

\* ResultAggregator.gen_cnvs: reporting.py is imported (reporting.py:18-27),
\* then the loop of reporting.py:394-404 runs; report: what
\* get_or_write_derived_file returned for the report of the cast
GenCnvs ==
    /\ pc = "idle"
    /\ \E report \in {"report", PyNone} :
          rep' = IF ~ReportingImported
                 THEN RepImportError("gen_cnvs")
                 ELSE Rep("gen_cnvs", "done",
                          IF report = PyNone THEN "skipped" ELSE "converted",
                          {}, NoRangeInput, report)
    /\ UNCHANGED <<qa, model>>
    /\ UNCHANGED cacheVars
    /\ UNCHANGED toolVars
    /\ UNCHANGED runVars
    /\ UNCHANGED taskVars
    /\ UNCHANGED <<exitVars, writerVars, stateVars, threadVars>>

\* ResultAggregator.rating: reporting.py is imported, then the four test
\* ratings are combined (reporting.py:227-243)
OverallRating ==
    /\ pc = "idle"
    /\ \E presence \in {50, 100}, manifest_ok \in BOOLEAN,
          lat_lon \in TestRatings, date \in TestRatings :
          LET ratings == {presence_of_all_files_rating(presence),
                          valid_checksum_rating(manifest_ok), lat_lon, date}
          IN rep' = IF ~ReportingImported
                    THEN RepImportError("rating")
                    ELSE Rep("rating", "done", rating(ratings), ratings,
                             NoRangeInput, NoKey)
    /\ UNCHANGED <<qa, model>>
    /\ UNCHANGED cacheVars
    /\ UNCHANGED toolVars
    /\ UNCHANGED runVars
    /\ UNCHANGED taskVars
    /\ UNCHANGED <<exitVars, writerVars, stateVars, threadVars>>

\* ResultAggregator.lat_lon_nav_ranges_rating / time_rating: reporting.py is
\* imported, then the percentages are computed and rated
\* (reporting.py:144-225)
RangeRating ==
    /\ pc = "idle"
    /\ \E test \in {"lat_lon", "date"}, counts \in RangeInputs :
          LET valid == percent(counts.valid, counts.n)
              range == percent(counts.inrange, counts.n)
          IN rep' = IF ~ReportingImported
                    THEN RepImportError("range_rating")
                    ELSE Rep("range_rating", "done",
                             IF test = "lat_lon"
                             THEN lat_lon_nav_ranges_rating(valid, range)
                             ELSE time_rating(valid, range),
                             {}, counts, NoKey)
    /\ UNCHANGED <<qa, model>>
    /\ UNCHANGED cacheVars
    /\ UNCHANGED toolVars
    /\ UNCHANGED runVars
    /\ UNCHANGED taskVars
    /\ UNCHANGED <<exitVars, writerVars, stateVars, threadVars>>

\* docker_ctl.py:41-43: thread t reads self.container; it returns it when it
\* is set, and goes on to launch otherwise
ThreadCheck(t) ==
    /\ thr[t].pc = "idle"
    /\ thr' = [thr EXCEPT ![t] =
                  IF cached(container)
                  THEN Call("returned", container, NoContainer, NoContainer, container)
                  ELSE Call("launching", container, NoContainer, NoContainer,
                            NoContainer)]
    /\ UNCHANGED <<container, workers, atexit>>
    /\ UNCHANGED cacheVars
    /\ UNCHANGED toolVars
    /\ UNCHANGED runVars
    /\ UNCHANGED taskVars
    /\ UNCHANGED <<exitVars, reportVars, writerVars, stateVars>>

\* docker_ctl.py:44-60: containers.run of thread t returns a new container,
\* which is stored in self.container
ThreadRun(t) ==
    /\ thr[t].pc = "launching"
    /\ workers' = workers + 1
    /\ container' = workers + 1
    /\ thr' = [thr EXCEPT ![t].pc = "launched", ![t].own = workers + 1]
    /\ UNCHANGED atexit
    /\ UNCHANGED cacheVars
    /\ UNCHANGED toolVars
    /\ UNCHANGED runVars
    /\ UNCHANGED taskVars
    /\ UNCHANGED <<exitVars, reportVars, writerVars, stateVars>>

\* docker_ctl.py:62-68: thread t registers _kill_container, which kills what
\* self.container refers to when the process exits
ThreadRegister(t) ==
    /\ thr[t].pc = "launched"
    /\ atexit' = atexit \cup {t}
    /\ thr' = [thr EXCEPT ![t].pc = "registered"]
    /\ UNCHANGED <<container, workers>>
    /\ UNCHANGED cacheVars
    /\ UNCHANGED toolVars
    /\ UNCHANGED runVars
    /\ UNCHANGED taskVars
    /\ UNCHANGED <<exitVars, reportVars, writerVars, stateVars>>

\* docker_ctl.py:70, 72-73: thread t passes what self.container refers to now
\* to container_ready, which answers healthy
ThreadGate(t, healthy) ==
    /\ thr[t].pc = "registered"
    /\ thr' = [thr EXCEPT ![t].pc = IF healthy THEN "ready" ELSE "raised",
                          ![t].gate = container]
    /\ UNCHANGED <<container, workers, atexit>>
    /\ UNCHANGED cacheVars
    /\ UNCHANGED toolVars
    /\ UNCHANGED runVars
    /\ UNCHANGED taskVars
    /\ UNCHANGED <<exitVars, reportVars, writerVars, stateVars>>

\* docker_ctl.py:71  return self.container, read again after the gate
ThreadReturn(t) ==
    /\ thr[t].pc = "ready"
    /\ thr' = [thr EXCEPT ![t].pc = "returned", ![t].got = container]
    /\ UNCHANGED <<container, workers, atexit>>
    /\ UNCHANGED cacheVars
    /\ UNCHANGED toolVars
    /\ UNCHANGED runVars
    /\ UNCHANGED taskVars
    /\ UNCHANGED <<exitVars, reportVars, writerVars, stateVars>>

---------------------------------------------------------------------------
Init ==
    /\ ds = [k \in DerivedKeys |-> Absent]
    /\ hasqc \in BOOLEAN
    /\ qc = EmptyMap
    /\ disk = Mem(ds, hasqc, qc)
    /\ ncalls = [k \in DerivedKeys |-> 0]
    /\ raised = [k \in DerivedKeys |-> FALSE]
    /\ mapped = [k \in DerivedKeys |-> Absent]
    /\ ret = NoRet
    /\ pc = "idle"
    /\ req = NoKey
    /\ launched = FALSE
    /\ gated = FALSE
    /\ attempt = 1
    /\ execs = 0
    /\ restarts = 0
    /\ crashes = 0
    /\ sawdbg = FALSE
    /\ sawrc = FALSE
    /\ wres = "none"
    /\ polls = 0
    /\ launches = 0
    /\ runs = 0
    /\ loaded = FALSE
    /\ vol = EmptyVol
    /\ task = NoTask
    /\ hooks = 0
    /\ exited = FALSE
    /\ kills = 0
    /\ qa = NoQa
    /\ model = NoKey
    /\ rep = NoRep
    /\ writers = [w \in Writers |-> NoWriter]
    /\ lastw = 0
    /\ files = {}
    /\ cast = NoCast
    /\ container = NoContainer
    /\ thr = [t \in Threads |-> NoCall]
    /\ workers = 0
    /\ atexit = {}

\* the cache under test doubles
NextCache ==
    \/ \E key \in CheckKeys, fres \in BOOLEAN : CheckCall(key, fres)
    \/ \E key \in TestKeys : DerivedCall(key, ProducerResults(TestKeys))
    \/ InitializeOrGetState

SpecCache == Init /\ [][NextCache]_vars

\* get_or_write_derived_file under test doubles, for all three derived keys
NextMulti == \E key \in DerivedKeys : DerivedCall(key, ProducerResults(DerivedKeys))

SpecMulti == Init /\ [][NextMulti]_vars

\* the cache with the producers of the program, which run the tools
NextTool ==
    \/ ConReportCall
    \/ \E key \in CnvKeys : CnvBegin(key)
    \/ \E stderr \in Stderrs : Attempt(stderr)

SpecTool == Init /\ [][NextTool]_vars

\* the invocations of the tools step by step, with their directories
NextTask ==
    \/ \E tool \in Tools, healthAt \in HealthAts : TaskBegin(tool, healthAt)
    \/ \E name \in DirNames : TaskCreate(name)
    \/ TaskPopulate
    \/ \E stderr \in Stderrs :
          \E outs \in SUBSET OutPaths(task.tool) : TaskExec(stderr, outs)
    \/ TaskEnd
    \/ ProcessExit

SpecTask == Init /\ [][NextTask]_vars

\* the configuration report under test doubles, the model read from it, and
\* the list of casts without a report
NextReport ==
    \/ ReportCall
    \/ ModelCall
    \/ InfoCastsWithXmlconBadFormat
    \/ \E key \in CnvKeys : AccessorCnv(key)
    \/ GenCnvs

SpecReport == Init /\ [][NextReport]_vars

\* the checks behind the test ratings, and the ratings of the QA report
NextRating ==
    \/ \E key \in RatingKeys, fres \in BOOLEAN : CheckCall(key, fres)
    \/ OverallRating
    \/ RangeRating

SpecRating == Init /\ [][NextRating]_vars

\* threads of one process call get_container() while no container exists
NextThreads ==
    \/ \E t \in Threads : ThreadCheck(t)
    \/ \E t \in Threads : ThreadRun(t)
    \/ \E t \in Threads : ThreadRegister(t)
    \/ \E t \in Threads, healthy \in BOOLEAN : ThreadGate(t, healthy)
    \/ \E t \in Threads : ThreadReturn(t)

SpecThreads == Init /\ [][NextThreads]_vars

\* the raw inputs of the breakouts are opened
NextState == \E breakout \in Breakouts, hex_path \in HexPaths : OpenCast(breakout, hex_path)

SpecState == Init /\ [][NextState]_vars

\* two writers of one cast record
NextWriters ==
    \/ \E w \in Writers : WriterLoad(w)
    \/ \E w \in Writers, key \in WriterKeys, fres \in BOOLEAN : WriterCheck(w, key, fres)

SpecWriters == Init /\ [][NextWriters]_vars

---------------------------------------------------------------------------
(* Properties of the cache (state.py) *)

\* some later call for key k was answered from the error marker
AnsweredFromMarker(k) ==
    /\ raised[k]
    /\ ret.op = "derived" /\ ret.key = k
    /\ ret.res = NotInvoked /\ ret.kind = "None"

C2_CheckIdempotent ==
    [][\A k \in CheckKeys :
          (ret'.op = "check" /\ ret'.key = k)
              => IF k \in DOMAIN qc
                 THEN /\ ret'.res = NotInvoked
                      /\ ret'.flag = PyBool(qc[k])
                      /\ k \in DOMAIN qc' /\ qc'[k] = qc[k]
                 ELSE /\ k \in DOMAIN qc'
                      /\ PyBool(qc'[k]) = ret'.flag]_vars

\* a call answered from the QC map although func would have returned the
\* opposite value
C2_Witness ==
    /\ ret.op = "check"
    /\ ret.res = NotInvoked
    /\ ret.val # BoolStr(ret.flag)
    /\ ret.flag = PyBool(qc[ret.key])

\* C3: every key of the QC attribute map (check keys and <key>_error markers)
\* is written at most once: once a key is present it stays, with its value.
C3_QcWriteOnce ==
    [][\A k \in DOMAIN qc : k \in DOMAIN qc' /\ qc'[k] = qc[k]]_vars

\* a check key and an error marker are present, and calls came after them
C3_Witness ==
    \E k \in DerivedKeys, c \in CheckKeys :
        /\ ErrorKey(k) \in DOMAIN qc
        /\ c \in DOMAIN qc
        /\ AnsweredFromMarker(k)

\* a dict result stored: every key of it is on the record and in the file
DictStored ==
    (ret.op = "derived" /\ ret.res.kind = "dict" /\ ret.kind = "value")
        => \A k \in DOMAIN ret.res.map :
              /\ ds[k] = ret.res.map[k]
              /\ disk.ds[k] = ret.res.map[k]

ProducerRaisedInvalid ==
    /\ ret.op = "derived"
    /\ ret.res.kind = "raise"
    /\ IsInvalidSBEFileError(ret.res.exc)

\* C5: when func raises InvalidSBEFileError, get_or_write_derived_file raises
\* nothing, returns None, and the marker <key>_error is in the QC map of the
\* record and of the file.
C5_Absorbed ==
    ProducerRaisedInvalid
        => /\ ret.kind = "None"
           /\ hasqc /\ ErrorKey(ret.key) \in DOMAIN qc
           /\ qc[ErrorKey(ret.key)] = Int8(FALSE)
           /\ disk.hasqc /\ ErrorKey(ret.key) \in DOMAIN disk.qc
           /\ disk.qc[ErrorKey(ret.key)] = Int8(FALSE)

C5_Witness == ProducerRaisedInvalid /\ ret.val = PyNone /\ disk.qc = qc

---------------------------------------------------------------------------
(* Properties of the retry wrapper and the tools (docker_ctl.py) *)

\* the last call of the wrapped run_sbebatch has ended
WrapperDone == pc = "idle" /\ wres \notin {"none", "running"}

\* ... and every execution of it reported the crash signature, the container
\* reporting healthy after each restart
AllCrashed == WrapperDone /\ execs > 0 /\ crashes = execs /\ gated

C7_ExhaustionRaises ==
    AllCrashed
        => /\ wres \notin {"returned_value", "returned_None"}
           /\ ret.kind = "raise"

\* C8: when every attempt reports the crash signature and the container is
\* healthy after each restart, the container has been restarted exactly tires
\* times when the wrapper ends.
C8_RestartedTiresTimes == AllCrashed => restarts = tires

C8_Witness == AllCrashed /\ restarts > 0 /\ ret.tool = "sbebatch"

---------------------------------------------------------------------------
(* More properties of the cache (state.py) *)

\* C13: a get_or_write_derived_file call for a key that is on the record
\* returns the stored artifact, does not invoke func and writes nothing:
\* the record and its file are as before.
C13_CacheHit ==
    [][\A k \in DerivedKeys :
          (InDs(ds, k) /\ ret'.op = "derived" /\ ret'.key = k)
              => /\ ret'.kind = "value" /\ ret'.val = ds[k]
                 /\ ret'.res = NotInvoked
                 /\ ncalls' = ncalls
                 /\ ds' = ds /\ hasqc' = hasqc /\ qc' = qc
                 /\ disk' = disk]_vars

\* a stored artifact was returned from the record
C13_Witness ==
    /\ ret.op = "derived" /\ ret.kind = "value"
    /\ ret.res = NotInvoked
    /\ ret.val \in Blobs /\ ret.val = ds[ret.key]
    /\ ncalls[ret.key] = 1

\* the call returned normally
NormalReturn == ret.kind \in {"value", "None"}

\* C14: when get_or_write_check or get_or_write_derived_file has returned
\* normally, the file holds the in-memory record; every step that stores a
\* check result, an error marker or an artifact writes the whole record.
C14_Durable ==
    /\ [](NormalReturn => disk = Mem(ds, hasqc, qc))
    /\ [][(ds' # ds \/ qc' # qc) => disk' = Mem(ds', hasqc', qc')]_vars

\* a check result, an error marker and an artifact are stored and in the file
C14_Witness ==
    /\ NormalReturn /\ ret.op = "derived" /\ ret.res # NotInvoked
    /\ \E c \in CheckKeys : c \in DOMAIN disk.qc
    /\ \E k \in DerivedKeys : ErrorKey(k) \in DOMAIN disk.qc
    /\ \E k \in DerivedKeys : disk.ds[k] \in Blobs

\* C15: when the state file exists, initialize_or_get_state opens the record
\* from it and does not call read_hex; on a record opened from the file, a
\* call for a check result, an artifact or an error marker that the file
\* holds is answered from the record without invoking func.
C15_MemoizedAcrossRuns ==
    /\ [][runs' = runs + 1
             => IF StateFileExists(disk)
                THEN /\ loaded' /\ ~ret'.flag
                     /\ Mem(ds', hasqc', qc') = disk
                     /\ disk' = disk
                ELSE ~loaded' /\ ret'.flag]_vars
    /\ [][(loaded /\ runs' = runs)
             => /\ \A k \in DerivedKeys :
                      (ret'.op = "derived" /\ ret'.key = k)
                          => /\ InDs(disk.ds, k)
                                  => /\ ret'.res = NotInvoked
                                     /\ ret'.kind = "value"
                                     /\ ret'.val = disk.ds[k]
                             /\ (~InDs(disk.ds, k) /\ ErrorKey(k) \in DOMAIN disk.qc)
                                  => /\ ret'.res = NotInvoked
                                     /\ ret'.kind = "None"
                /\ \A c \in CheckKeys :
                      (ret'.op = "check" /\ ret'.key = c /\ c \in DOMAIN disk.qc)
                          => /\ ret'.res = NotInvoked
                             /\ ret'.flag = PyBool(disk.qc[c])]_vars

\* on a record opened from the state file, a call for a key was answered from
\* the error marker of an earlier run, an artifact and a check result being
\* on the record too
C15_Witness ==
    /\ loaded /\ runs > 0
    /\ \E k \in DerivedKeys : AnsweredFromMarker(k)
    /\ \E k \in DerivedKeys : ds[k] \in Blobs
    /\ \E c \in CheckKeys : c \in DOMAIN qc

\* C16: when func returns a mapping without the requested key,
\* get_or_write_derived_file ends by raising ValueError, and neither the
\* record nor the file changes: no key of the mapping is stored.
C16_ContractViolation ==
    [][(/\ ret'.op = "derived"
        /\ ret'.res.kind = "dict"
        /\ ret'.key \notin DOMAIN ret'.res.map)
          => /\ ret'.kind = "raise" /\ ret'.val = "ValueError"
             /\ ds' = ds /\ hasqc' = hasqc /\ qc' = qc
             /\ disk' = disk]_vars

\* func returned a mapping that holds another key only, and that key is
\* neither on the record nor in the file
C16_Witness ==
    /\ ret.op = "derived" /\ ret.kind = "raise" /\ ret.val = "ValueError"
    /\ \E k \in DOMAIN ret.res.map :
          /\ k # ret.key
          /\ ds[k] = Absent /\ disk.ds[k] = Absent

---------------------------------------------------------------------------
(* Properties of the container (docker_ctl.py) *)

\* C11: a health gate never makes more than Tries = 10 polls (0.5 s apart, 5 s
\* in all); a gate in which
\* the container never reports healthy makes exactly 10 polls and ends with
\* False; when that gate is the one of the launch, get_container raises an
\* Exception, which ends the call.
C11_HealthGateBound ==
    /\ [](/\ Tries = 10
          /\ polls <= Tries
          /\ polls * sleepTenths <= timeout * 10
          /\ (launched /\ ~gated) => polls = Tries)
    /\ [][(launches' = launches + 1 /\ ~gated')
             => /\ ret'.kind = "raise" /\ ret'.val = "Exception"
                /\ pc' = "idle"
                /\ execs' = execs]_vars

\* the launch gate of a container that never reports healthy has ended
C11_Witness ==
    /\ launches = 1 /\ ~gated /\ polls = Tries
    /\ ret.kind = "raise" /\ ret.val = "Exception"
    /\ ret.tool = "con_report"

\* C12: the container is launched at most once; once it is launched, no
\* get_container call, task run, retry or restart launches another one or
\* drops it.
C12_SingletonWorker ==
    /\ [](launches <= 1 /\ (launched <=> launches = 1))
    /\ [][launched => (launched' /\ launches' = launches)]_vars

\* one container has served a con_report call and a retried conversion with
\* restarts
C12_Witness ==
    /\ launches = 1
    /\ ncalls["con_report"] > 0
    /\ WrapperDone /\ restarts > 1 /\ execs > 1
---------------------------------------------------------------------------
(* More properties of the retry wrapper (docker_ctl.py) *)

\* C17: an execution of the wrapped run_sbebatch that does not report the
\* crash signature ends the wrapper call in that attempt: no restart follows,
\* and when the execution raised, its exception reaches the caller of
\* get_or_write_derived_file.
C17_UnexpectedNotRetried ==
    [][(pc = "attempting" /\ execs' = execs + 1 /\ crashes' = crashes)
          => /\ pc' = "idle"
             /\ restarts' = restarts /\ attempt' = attempt
             /\ gated' = gated
             /\ ret'.res.kind \in {"dict", "raise"}
             /\ ret'.res.kind = "raise"
                  => /\ ret'.kind = "raise" /\ ret'.val = ret'.res.exc
                     /\ ret'.val # "WineDebuggerEnteredError"
                     /\ wres' = "raised_" \o ret'.res.exc
                     /\ ds' = ds /\ qc' = qc /\ disk' = disk]_vars

\* the second attempt raised another exception than the crash error, with
\* attempts left
C17_Witness ==
    /\ wres = "raised_OtherError"
    /\ ret.kind = "raise" /\ ret.val = "OtherError"
    /\ execs = 2 /\ restarts = 1 /\ attempt = 2 /\ LoopCond(attempt)

\* C18: when the container does not report healthy within the health gate
\* that follows a restart, the wrapper raises an Exception at once: the call
\* ends, the exception reaches the caller, and no further execution of the
\* wrapped function belongs to the call.
C18_FailedRestartFatal ==
    [][(pc = "attempting" /\ restarts' = restarts + 1 /\ ~gated')
          => /\ pc' = "idle"
             /\ wres' = "raised_Exception"
             /\ ret'.kind = "raise" /\ ret'.val = "Exception"
             /\ execs' = execs + 1
             /\ polls' = Tries]_vars

\* the restart after the first crash failed, two attempts being left
C18_Witness ==
    /\ wres = "raised_Exception"
    /\ restarts = 1 /\ execs = 1 /\ ~gated
    /\ attempt = 2 /\ LoopCond(attempt)
    /\ ret.kind = "raise" /\ ret.val = "Exception"
---------------------------------------------------------------------------
(* Properties of the task directories (docker_ctl.py) *)

\* an invocation is between the creation and the removal of its directory
TaskLive == task.pc \in {"created", "populated", "executed"}

\* C19: when the launcher is about to be executed, the directory of the
\* invocation holds exactly its launcher, its input files and out/, all
\* written by this invocation, and nothing under out/; the launcher is
\* executed in that state only; no directory of the volume ever holds a file
\* written by another invocation.
C19_TaskIsolated ==
    /\ [](task.pc = "populated"
            => /\ task.dir \in DOMAIN vol
               /\ vol[task.dir].owner = task.id
               /\ vol[task.dir].files = TaskFiles(task.tool, task.id)
               /\ \A f \in vol[task.dir].files :
                     f.by = task.id /\ (f.path = "out/" \/ f.path \notin OutPaths(task.tool)))
    /\ [](\A n \in DOMAIN vol : \A f \in vol[n].files : f.by \in {task.id, ByTool})
    /\ [][task'.pc = "executed" => (task.pc = "populated" \/ task.pc = "executed")]_vars

\* the launcher of a later run_sbebatch invocation is about to be executed
C19_Witness ==
    /\ task.pc = "populated" /\ task.id > 1
    /\ task.tool = "sbebatch"
    /\ vol[task.dir].files = TaskFiles("sbebatch", task.id)

\* C20 as stated: every invocation of run_con_report or run_sbebatch has
\* created a subdirectory of the volume, which is destroyed when the
\* invocation has ended.
C20_EveryInvocationHasDir ==
    task.pc = "ended" => (task.made /\ vol = EmptyVol)

\* C20 as amended: every invocation that has acquired the container creates
\* a new, empty subdirectory under a name not in use; the directory is
\* removed when the invocation ends, by return or by exception; a directory
\* of the volume belongs to the invocation in progress and to no other.  An
\* invocation whose get_container call raises ends without a directory.
C20_TaskDirPerInvocation ==
    /\ [](task.pc = "ended" => ((task.made <=> task.acquired) /\ vol = EmptyVol))
    /\ [](\A n \in DOMAIN vol :
            TaskLive /\ n = task.dir /\ vol[n].owner = task.id)
    /\ [](TaskLive => task.dir \in DOMAIN vol)
    /\ [][task'.pc = "created" /\ task.pc # "created"
             => /\ task.pc = "acquired"
                /\ task'.dir \notin DOMAIN vol
                /\ vol'[task'.dir] = NewDir(task.id)]_vars
    /\ [][task'.id # task.id
             => (task'.id = task.id + 1 /\ ~TaskLive) \/ task' = NoTask]_vars

\* a later invocation has ended by an exception and its directory is gone
C20_Witness ==
    /\ task.pc = "ended" /\ task.made /\ task.id > 1
    /\ task.how = "raised_WineDebuggerEnteredError"
    /\ vol = EmptyVol
---------------------------------------------------------------------------
(* Properties of the bad-format list (reporting.py) *)

\* C21: building the list "Casts with XMLCON/con file in Bad Format" does not
\* raise; every cast of the breakout is processed, and the list holds exactly
\* the casts whose configuration report is absent.
C21_BadFormatReported ==
    qa.status # "none"
        => /\ qa.status = "done"
           /\ \A c \in Casts : qa.seen[c] # NotProcessed
           /\ qa.list = {c \in Casts : qa.seen[c] = PyNone}

---------------------------------------------------------------------------
(* Properties of the restart and of the exit hook (docker_ctl.py) *)

\* C22: the container is restarted only in the except clause of
\* attempts.wrapper, once per crashed execution; every restart is followed by
\* the health gate, and the wrapped function is executed again only when
\* that gate has seen the container healthy: a gate that fails ends the call
\* with the Exception.
C22_RestartRegatesHealth ==
    /\ [](pc = "attempting" /\ restarts > 0 => gated)
    /\ [][restarts' # restarts /\ restarts' # 0
             => /\ pc = "attempting"
                /\ restarts' = restarts + 1
                /\ crashes' = crashes + 1
                /\ polls' >= 1
                /\ gated' \/ (pc' = "idle" /\ wres' = "raised_Exception")]_vars
    /\ [][execs' = execs + 1 /\ restarts > 0 => gated]_vars

\* the second execution, after a restart whose gate saw the container
\* healthy, has returned the converted files
C22_Witness ==
    /\ pc = "idle" /\ wres = "returned_value"
    /\ execs = 2 /\ restarts = 1 /\ crashes = 1 /\ gated

\* C23: every launch of the container registers one exit hook, also the
\* launch whose health gate then fails; when the process exits, the hook
\* kills the container.
C23_TerminationHook ==
    /\ [](hooks = launches)
    /\ [](launched => hooks >= 1)
    /\ [][launches' = launches + 1 => hooks' = hooks + 1]_vars
    /\ [](exited => kills = launches)

\* the process has exited after a launch whose health gate failed, and the
\* container was killed
C23_Witness ==
    /\ exited /\ launched /\ ~gated
    /\ launches = 1 /\ kills = 1

---------------------------------------------------------------------------
(* Properties of the state file of a raw input (state.py) *)

\* C24 as stated: the state file of a raw input is get_state_path of its
\* breakout and its path; no two distinct raw input files of one breakout
\* have the same state file, so the record a raw input is given is its own.
C24_OneRecordPerRawInput ==
    cast.opened
        => /\ cast.path = get_state_path(cast.breakout, cast.hex)
           /\ cast.holds = cast.hex
           /\ \A f \in files : f.path = cast.path => f.src = cast.hex

\* C24 as amended: the state file is proc/nc/<stem>.nc under the breakout;
\* two raw inputs of one breakout have the same state file exactly when their
\* file names have the same stem, whatever their directories and suffixes;
\* raw inputs of different breakouts never share one; a state path has one
\* file; a raw input opened when the file of its stem exists is given the
\* record in that file.
C24_OneRecordPerStem ==
    /\ \A b \in Breakouts : \A h1, h2 \in HexPaths :
          (get_state_path(b, h1) = get_state_path(b, h2))
              <=> (stem(h1.name) = stem(h2.name))
    /\ \A b1, b2 \in Breakouts : \A h1, h2 \in HexPaths :
          b1 # b2 => get_state_path(b1, h1) # get_state_path(b2, h2)
    /\ \A f1, f2 \in files : f1.path = f2.path => f1 = f2
    /\ \A f \in files : \E b \in Breakouts : f.path = get_state_path(b, f.src)
    /\ cast.opened
          => /\ cast.path = get_state_path(cast.breakout, cast.hex)
             /\ cast.path.name = stem(cast.hex.name) \o <<"nc">>
             /\ [path |-> cast.path, src |-> cast.holds] \in files
             /\ stem(cast.holds.name) = stem(cast.hex.name)
             /\ cast.read_hex => cast.holds = cast.hex

\* a raw input was opened and given the record of another raw input with the
\* same stem
C24_Witness ==
    /\ cast.opened /\ ~cast.read_hex
    /\ cast.holds # cast.hex
    /\ cast.holds.dir = cast.hex.dir

---------------------------------------------------------------------------
(* Properties of the QC attribute map (state.py) *)

\* C25: when get_or_write_check computes a key on a record without r2r_qc,
\* the map is created and is written with the key in one write: after the
\* call the map in memory and the map in the file hold exactly that key, with
\* the int8 of the result.  The same holds for the error marker, which is
\* stored through get_or_write_check.
C25_QcMapCreatedWithKey ==
    [][/\ (~hasqc /\ ret'.op = "check")
            => /\ hasqc' /\ disk'.hasqc
               /\ DOMAIN qc' = {ret'.key}
               /\ disk'.qc = qc'
               /\ qc'[ret'.key] = Int8(ret'.flag)
       /\ (~hasqc /\ ret'.op = "derived" /\ ret'.kind = "None")
            => /\ hasqc' /\ disk'.hasqc
               /\ DOMAIN qc' = {ErrorKey(ret'.key)}
               /\ disk'.qc = qc'
               /\ qc'[ErrorKey(ret'.key)] = Int8(FALSE)]_vars

\* the first call on the record of this run computed the key, and the file
\* holds the map with that key only
C25_Witness ==
    /\ ret.op = "check" /\ ret.res # NotInvoked /\ ret.flag
    /\ runs = 0
    /\ \A k \in DerivedKeys : ncalls[k] = 0
    /\ disk.hasqc /\ DOMAIN disk.qc = {ret.key}

\* both writers opened the record when the file held the same, and each has
\* stored one QC key, not the key of the other
TwoWritersStored ==
    /\ writers[1].loaded /\ writers[2].loaded
    /\ writers[1].base = writers[2].base
    /\ Cardinality(writers[1].stored) = 1
    /\ Cardinality(writers[2].stored) = 1
    /\ writers[1].stored # writers[2].stored

\* C26 as stated: after two writers that had opened the same record have each
\* stored a different QC key, the map in the file is the map of the writer
\* that wrote last.
C26_LastWriterWins ==
    TwoWritersStored => disk.qc = writers[lastw].mem.qc

\* C26 as amended: after two writers that had opened the same record have
\* each stored a different QC key, the map in the file holds the keys it held
\* when they opened it and both stored keys, each with the value its writer
\* stored: the write sets the writer's keys in the file and leaves the other
\* keys of the file in place.  The copy of a writer does not hold the key of
\* the other.
C26_AppendKeepsBoth ==
    TwoWritersStored
        => /\ DOMAIN disk.qc = DOMAIN writers[1].base.qc
                                  \cup writers[1].stored \cup writers[2].stored
           /\ \A w \in Writers : \A k \in writers[w].stored :
                 /\ disk.qc[k] = writers[w].mem.qc[k]
                 /\ \A v \in Writers \ {w} : k \notin DOMAIN writers[v].mem.qc

\* writer 2 wrote last, and the file holds the keys of both writers
C26_Witness ==
    /\ TwoWritersStored /\ lastw = 2
    /\ DOMAIN disk.qc = WriterKeys
    /\ DOMAIN writers[2].mem.qc # WriterKeys

---------------------------------------------------------------------------
(* Properties of the report and the model (state.py, derived.py) *)

\* the first get_or_write_derived_file call for con_report on a new record,
\* whose producer returns the text
FirstReportCall(text) ==
    /\ \A k \in DerivedKeys : ncalls[k] = 0 /\ ds[k] = Absent
    /\ qc = EmptyMap
    /\ ncalls'["con_report"] = 1
    /\ ret'.op = "derived" /\ ret'.key = "con_report"
    /\ ret'.res = Scalar(text)

\* the call stored the text in the record and in the file and returned it
ReportStored(text) ==
    /\ ds'["con_report"] = text
    /\ disk'.ds["con_report"] = text
    /\ ret'.kind = "value" /\ ret'.val = text

\* C27 as stated: on a new record, the first call for the report key with a
\* producer returning a text that contains "Configuration report for SBE
\* 911plus" stores the text under the key, and get_model of the stored text
\* is "SBE911".
C27_ReportThenModel ==
    [][\A text \in ReportTexts :
          FirstReportCall(text) /\ InText(Header911, text)
              => ReportStored(text) /\ get_model(ds'["con_report"]) = "SBE911"]_vars

\* C27 as amended: the same for a text that contains "Configuration report
\* for SBE 911plus" and neither "Configuration report for SBE 25" nor
\* "Configuration report for SBE 49", for which get_model tests first; what
\* get_model has returned is the model of the stored text.
C27_ReportThenModel911 ==
    /\ [][\A text \in ReportTexts :
             /\ FirstReportCall(text) /\ InText(Header911, text)
             /\ ~InText(Header25, text) /\ ~InText(Header49, text)
             => ReportStored(text) /\ get_model(ds'["con_report"]) = "SBE911"]_vars
    /\ [][model' # model => model' = get_model(ds["con_report"])]_vars
    /\ [](model = "SBE911"
            => /\ InText(Header911, ds["con_report"])
               /\ ~InText(Header25, ds["con_report"])
               /\ ~InText(Header49, ds["con_report"]))

\* the report stored by the first call holds the 911plus header, and get_model
\* has returned SBE911 for it
C27_Witness ==
    /\ model = "SBE911"
    /\ ncalls["con_report"] = 1
    /\ ds["con_report"] = "r911_19" /\ disk.ds["con_report"] = "r911_19"

---------------------------------------------------------------------------
(* Properties of the acquisition, the exhaustion and the stored artifacts *)

\* C28: an invocation is given the container by get_container only when the
\* container has reported healthy in a health gate since its launch; no
\* invocation runs on a container that has not.
C28_AcquisitionGated ==
    task.acquired => gated

\* C29: when every execution of a make_cnvs call has crashed and the retries
\* are used up, nothing is stored under the request key, in the record or in
\* the file, so that a later call for the key invokes the producer again.
C29_NothingStoredOnExhaustion ==
    (AllCrashed /\ wres = "returned_None" /\ ret.op = "derived" /\ ret.res = Exhausted)
        => /\ ds[ret.key] = Absent
           /\ disk.ds[ret.key] = Absent
           /\ DerivedLookup(Mem(ds, hasqc, qc), ret.key) = "miss"

\* C30: a value stored under a key of the record is not changed by any later
\* get_or_write_derived_file call, whatever its request key and whether its
\* producer returns one value or a dict.
C30_ArtifactsWriteOnce ==
    [][\A k \in DerivedKeys : ds[k] # Absent => ds'[k] = ds[k]]_vars
---------------------------------------------------------------------------
(* Properties of the marker, of a malformed input and of the first success *)

\* C31: the record never holds a value under a key k together with the marker
\* k_error in its QC map.
C31_ValueXorMarker ==
    \A k \in DerivedKeys : ~(InDs(ds, k) /\ HasErrorMarker(hasqc, qc, k))

\* C32: a get_or_write_derived_file call whose func raises
\* InvalidSBEFileError for request key k changes the record and its file in
\* one way only: the QC map, created if it was not there, gains k_error with
\* the int8 of False; no data variable is added or changed, and every other
\* QC key keeps its value.
C32_MalformedFrame ==
    [][\A key \in DerivedKeys :
          (/\ ncalls'[key] = ncalls[key] + 1
           /\ ret'.res.kind = "raise" /\ IsInvalidSBEFileError(ret'.res.exc))
          => /\ ds' = ds
             /\ hasqc'
             /\ ErrorKey(key) \notin DOMAIN qc
             /\ qc' = (ErrorKey(key) :> Int8(FALSE)) @@ qc
             /\ disk'.ds = disk.ds
             /\ disk'.hasqc
             /\ disk'.qc = (ErrorKey(key) :> Int8(FALSE)) @@ disk.qc]_vars

\* the producer raised for cnv_1db on a record that holds cnv_24hz and a
\* check result, which are still there
C32_Witness ==
    /\ ProducerRaisedInvalid /\ ret.key = "cnv_1db"
    /\ ds["cnv_24hz"] \in Blobs /\ ds["cnv_1db"] = Absent
    /\ DOMAIN qc = {"three_files", ErrorKey("cnv_1db")}
    /\ disk = Mem(ds, hasqc, qc)

\* C33: when an execution of the wrapped function succeeds after k-1 crashed
\* ones (k <= tires), the wrapper returns what that execution returned, the
\* container has been restarted k-1 times, and no execution or restart
\* follows until another call begins.
C33_StopsAtFirstSuccess ==
    /\ [][(pc = "attempting" /\ wres' = "returned_value")
             => /\ pc' = "idle"
                /\ execs' = execs + 1
                /\ execs' \in 1..tires
                /\ crashes' = execs' - 1
                /\ restarts' = execs' - 1
                /\ restarts' = restarts /\ crashes' = crashes
                /\ ret'.res.kind = "dict"
                /\ ret'.kind = "value"
                /\ ret'.val = ret'.res.map[req]
                /\ \A k \in DOMAIN ret'.res.map : ds'[k] = ret'.res.map[k]]_vars
    /\ [][pc = "idle"
             => \/ execs' = execs /\ restarts' = restarts
                \/ execs' = 0 /\ restarts' = 0 /\ ncalls' # ncalls]_vars

\* the third execution succeeded after two crashed ones and two restarts
C33_Witness ==
    /\ WrapperDone /\ wres = "returned_value"
    /\ execs = 3 /\ crashes = 2 /\ restarts = 2
    /\ ret.kind = "value"

\* C34: for a cast whose configuration report is absent make_cnvs is never
\* invoked and the converted files are reported absent, through the accessor
\* properties cnv_24hz / cnv_1db and through gen_cnvs alike.
C34_ConversionGated ==
    /\ HasErrorMarker(hasqc, qc, "con_report")
          => \A key \in CnvKeys : ncalls[key] = 0 /\ ~InDs(ds, key)
    /\ ret.op = "accessor"
          => /\ HasErrorMarker(hasqc, qc, "con_report")
             /\ ret.kind = "None" /\ ret.res = NotInvoked
    /\ rep.what = "gen_cnvs"
          => /\ rep.status = "done"
             /\ rep.report = PyNone => rep.value = "skipped"

\* C36: the overall rating is R when any of the four test ratings is R, G
\* only when all four are G, and otherwise N if any is N, else X if any is
\* X, else Y.
C36_OverallRating ==
    rep.what = "rating"
        => /\ rep.status = "done"
           /\ rep.value =
                 IF "R" \in rep.ratings THEN "R"
                 ELSE IF rep.ratings = {"G"} THEN "G"
                 ELSE IF "N" \in rep.ratings THEN "N"
                 ELSE IF "X" \in rep.ratings THEN "X"
                 ELSE "Y"

\* C37: a range rating is X when no cast has a readable value; otherwise G
\* exactly when every cast is within the bounds, Y when the truncated
\* percentage within the bounds is at least 50 and below 100, R below 50.
C37_RangeRatings ==
    rep.what = "range_rating"
        => /\ rep.status = "done"
           /\ rep.value =
                 IF rep.counts.valid = 0 THEN "X"
                 ELSE IF rep.counts.inrange = rep.counts.n THEN "G"
                 ELSE IF percent(rep.counts.inrange, rep.counts.n) >= 50 THEN "Y"
                 ELSE "R"

\* C35: when two threads call get_container concurrently while no worker
\* exists yet, at most one worker is launched and both calls return the
\* same worker.
C35_AtMostOneWorker ==
    /\ workers <= 1
    /\ \A t \in Threads, u \in Threads :
          thr[t].pc = "returned" /\ thr[u].pc = "returned"
              => thr[t].got = thr[u].got

\* C35 as the code has it: acquisition is not serialised.  Every thread that
\* reads the empty reference launches a worker of its own, so at most one
\* worker per thread is launched; a thread that reads a set reference
\* launches nothing and returns the worker it read; the reference holds the
\* worker launched last, and a call that returns returns a launched worker,
\* the same one as the other call when only one was launched.
C35_OneWorkerPerEmptyRead ==
    /\ workers = Cardinality({t \in Threads : thr[t].own # NoContainer})
    /\ container = workers
    /\ \A t \in Threads :
          /\ thr[t].pc \notin {"idle", "returned"} => thr[t].seen = NoContainer
          /\ thr[t].own # NoContainer => thr[t].seen = NoContainer
          /\ thr[t].pc = "returned"
                => /\ thr[t].got \in 1..workers
                   /\ thr[t].own = NoContainer
                         => thr[t].seen # NoContainer /\ thr[t].got = thr[t].seen
    /\ \A t \in Threads, u \in Threads :
          workers = 1 /\ thr[t].pc = "returned" /\ thr[u].pc = "returned"
              => thr[t].got = thr[u].got

\* both threads read the empty reference, each launched a worker, and the
\* two calls returned different workers
C35_Witness ==
    /\ workers = 2
    /\ \A t \in {1, 2} : thr[t].pc = "returned" /\ thr[t].seen = NoContainer
    /\ thr[1].got # thr[2].got
====
